---- MODULE Spec2Model ----
(***************************************************************************)
(* Bulk Freshdesk Mailer (backend/main.py): the POST /send-bulk handler,   *)
(* the send_ticket submitter it calls, and the start-up validation of the  *)
(* Freshdesk environment.  Text values (cells, file names, templates) are  *)
(* sequences of one-character strings so that strip(), lower(),            *)
(* endswith() and format() are computed, not assumed.                      *)
(***************************************************************************)
EXTENDS Integers, Sequences, FiniteSets, TLC

VARIABLES
    server,     \* module import: "init", "up" or "failed" (validate_env raised)
    env,        \* FRESHDESK_DOMAIN / FRESHDESK_API_KEY as read by os.getenv
    pc,         \* per request: position of the handler
    req,        \* per request: the multipart form of the request
    df,         \* per request: the parsed DataFrame (header and rows)
    idx,        \* per request: the position of df.iterrows()
    results,    \* per request: the list `results`
    trace,      \* per request: requests.post calls and time.sleep calls, in order
    response    \* per request: what the handler answered

vars == <<server, env, pc, req, df, idx, results, trace, response>>

-----------------------------------------------------------------------------
(* Bounds of the model *)

\* rows of an uploaded sheet
MaxRows == 3

\* longest sheet of a request when two requests are served at once
MaxConcRows == 2

-----------------------------------------------------------------------------
(* Program constants *)

\* validate_env: keys shorter than this are rejected
MinKeyLen == 15
\* time.sleep(0.5)
SleepMs == 500
\* HTTP status of the rate-limit signal
RateLimitStatus == 429
\* HTTP status given to a requests.RequestException
BadGatewayStatus == 502
\* HTTP status of every batch-level rejection
BadRequestStatus == 400

-----------------------------------------------------------------------------
(* Text helpers *)

IsSpace(c) == c \in {" ", "\t", "\n"}

RECURSIVE LStrip(_)
LStrip(s) ==
    IF s = <<>> THEN <<>>
    ELSE IF IsSpace(Head(s)) THEN LStrip(Tail(s)) ELSE s

RECURSIVE RStrip(_)
RStrip(s) ==
    IF s = <<>> THEN <<>>
    ELSE IF IsSpace(s[Len(s)]) THEN RStrip(SubSeq(s, 1, Len(s) - 1)) ELSE s

\* str.strip()
Strip(s) == RStrip(LStrip(s))

LowerChar(c) ==
    CASE c = "C" -> "c"
      [] c = "S" -> "s"
      [] c = "V" -> "v"
      [] c = "X" -> "x"
      [] c = "L" -> "l"
      [] c = "A" -> "a"
      [] OTHER -> c

\* str.lower()
Lower(s) == [i \in 1..Len(s) |-> LowerChar(s[i])]

\* str.endswith(suffix)
EndsWith(s, suffix) ==
    /\ Len(s) >= Len(suffix)
    /\ SubSeq(s, Len(s) - Len(suffix) + 1, Len(s)) = suffix

\* an API key of n characters
Key(n) == [i \in 1..n |-> "k"]

-----------------------------------------------------------------------------
(* Inputs: the environment, the uploaded file, the form fields, the remote *)

Batches == {1, 2}

Domains == {"", "acme"}

ApiKeys == {<<>>, <<" ", " ", " ">>, Key(MinKeyLen - 1), Key(MinKeyLen)}

Envs == [domain : Domains, api_key : ApiKeys]

\* a cell as pandas holds it: NaN for an empty cell, else its text
NaN == [isna |-> TRUE, v |-> <<>>]

Cell(s) == [isna |-> FALSE, v |-> s]

Columns == <<"email", "name">>

RowKinds ==
    { <<Cell(<<"a", "@", "x">>), Cell(<<"A", "l">>)>>,
      <<Cell(<<" ", "b", "@", "x", " ">>), NaN>>,
      <<NaN, Cell(<<"B", "o">>)>>,
      <<Cell(<<" ">>), NaN>> }

Sheets == UNION {[1..n -> RowKinds] : n \in 0..MaxRows}

Frames == {[columns |-> Columns, rows |-> s] : s \in Sheets}

NoFrame == [columns |-> <<>>, rows |-> <<>>]

Contents ==
    {[fmt |-> f, frame |-> d] : f \in {"csv", "excel"}, d \in Frames}
        \cup {[fmt |-> "garbage", frame |-> NoFrame]}

Filenames ==
    { <<"a", ".", "C", "S", "V">>,
      <<"b", ".", "x", "l", "s", "x">>,
      <<"c", ".", "x", "l", "s">>,
      <<"d", ".", "t", "x", "t">>,
      <<>> }

Lit(s) == [k |-> "lit", text |-> s]

Ph(c) == [k |-> "ph", name |-> c]

SubjectTemplates ==
    { <<Lit(<<"H", "i", " ">>), Ph("name")>>,
      <<Lit(<<"H", "i", " ">>), Ph("city")>> }

BodyTemplates ==
    { <<Ph("name"), Lit(<<"!">>)>>,
      <<Ph("name"), Ph("zip")>> }

EmailColumns == {"email", "mail"}

Requests ==
    [filename : Filenames, content : Contents,
     subject_template : SubjectTemplates, body_template : BodyTemplates,
     email_column : EmailColumns]

\* the inputs of the specification of two requests at once: sheets of
\* MaxConcRows - 1 or MaxConcRows rows, each row with an address or without
\* one, a supported and an unsupported file name, templates that render and
\* templates that do not
ConcRowKinds ==
    { <<Cell(<<"a", "@", "x">>), Cell(<<"A", "l">>)>>,
      <<NaN, Cell(<<"B", "o">>)>> }

ConcFrames ==
    {[columns |-> Columns, rows |-> s] :
        s \in UNION {[1..n -> ConcRowKinds] : n \in (MaxConcRows - 1)..MaxConcRows}}

ConcRequests ==
    [filename : {<<"a", ".", "C", "S", "V">>, <<"d", ".", "t", "x", "t">>},
     content : {[fmt |-> "csv", frame |-> d] : d \in ConcFrames},
     subject_template : {<<Lit(<<"H", "i", " ">>), Ph("name")>>},
     body_template : BodyTemplates,
     email_column : {"email"}]

NoRequest ==
    [filename |-> <<>>, content |-> [fmt |-> "garbage", frame |-> NoFrame],
     subject_template |-> <<>>, body_template |-> <<>>, email_column |-> ""]

TicketIds == {71, 72}

\* 304 stands for the responses below 400 that are not 2xx and that requests
\* hands back as they are (a 3xx that is no followable redirect)
RemoteStatuses == {201, 304, 429, 500}

\* what one requests.post may meet: a transport failure or an HTTP response;
\* id 0 is a body without an "id", for which .get("id") gives None; json is
\* FALSE for a body that response.json() cannot decode
RemoteReplies ==
    {[kind |-> "exc", status |-> 0, id |-> 0, json |-> FALSE]}
        \cup {[kind |-> "resp", status |-> 201, id |-> i, json |-> TRUE] : i \in TicketIds}
        \cup {[kind |-> "resp", status |-> s, id |-> 0, json |-> TRUE] :
                    s \in RemoteStatuses \ {201}}
        \cup {[kind |-> "resp", status |-> 201, id |-> 0, json |-> FALSE]}

\* the replies met in the specification of two requests at once
ConcReplies ==
    { [kind |-> "resp", status |-> 201, id |-> 71, json |-> TRUE],
      [kind |-> "resp", status |-> 201, id |-> 0, json |-> FALSE],
      [kind |-> "resp", status |-> 429, id |-> 0, json |-> TRUE],
      [kind |-> "resp", status |-> 500, id |-> 0, json |-> TRUE] }

NoResponse == [kind |-> "none"]

-----------------------------------------------------------------------------
(* validate_env, run once when the module is imported *)

\* TRUE when validate_env returns, FALSE when it raises RuntimeError
validate_env(e) ==
    IF e.domain = "" \/ e.api_key = <<>> THEN FALSE
    ELSE IF Len(Strip(e.api_key)) < MinKeyLen THEN FALSE
    ELSE TRUE

\* AUTH = (FRESHDESK_API_KEY, "X")
AUTH(e) == <<e.api_key, "X">>

-----------------------------------------------------------------------------
(* The loader part of send_bulk *)

\* pd.read_excel(BytesIO(content))
read_excel(content) ==
    IF content.fmt = "excel" THEN [ok |-> TRUE, df |-> content.frame, exc |-> ""]
    ELSE [ok |-> FALSE, df |-> NoFrame, exc |-> "excel parser error"]

\* pd.read_csv(StringIO(content.decode("utf-8")))
read_csv(content) ==
    IF content.fmt = "csv" THEN [ok |-> TRUE, df |-> content.frame, exc |-> ""]
    ELSE [ok |-> FALSE, df |-> NoFrame, exc |-> "csv parser error"]

\* str(exc) of the HTTPException of the else branch: Starlette releases with
\* HTTPException.__str__ give "<status>: <detail>", earlier ones the empty
\* string
HTTPExceptionStr ==
    {"", "400: Unsupported file type. Please upload .csv, .xlsx or .xls."}

\* (a detail that is a str is the record [str |-> text], a detail that is a
\* dict the record of its keys, so that the two kinds can be told apart)
\* the try block that picks the parser by the lower-cased file name; every
\* exception raised inside it, the HTTPException of the else branch included,
\* is caught and re-raised as "Could not parse file: <exc>"
LoadFile(filename, content, exc_str) ==
    LET ext == Lower(filename)
        got == IF EndsWith(ext, <<".", "x", "l", "s", "x">>)
                    \/ EndsWith(ext, <<".", "x", "l", "s">>)
                 THEN read_excel(content)
               ELSE IF EndsWith(ext, <<".", "c", "s", "v">>)
                 THEN read_csv(content)
               ELSE [ok |-> FALSE, df |-> NoFrame, exc |-> exc_str]
    IN  IF got.ok THEN [ok |-> TRUE, df |-> got.df, error |-> NoResponse]
        ELSE [ok |-> FALSE, df |-> NoFrame,
              error |-> [kind |-> "error", status |-> BadRequestStatus,
                         detail |-> [str |-> <<"Could not parse file: ", got.exc>>]]]

Range(f) == {f[i] : i \in DOMAIN f}

\* variant: the column check is missing
ColumnNeverMissing(email_column, frame) == FALSE

\* email_column not in df.columns
ColumnMissing(email_column, frame) == email_column \notin Range(frame.columns)

ColumnNotFound(email_column, frame) ==
    [kind |-> "error", status |-> BadRequestStatus,
     detail |-> [message |-> <<"Email column not found.", email_column>>,
                 available_columns |-> frame.columns]]

-----------------------------------------------------------------------------
(* The row part of send_bulk *)

\* "" if pd.isna(value) else str(value)
CellText(cell) == IF cell.isna THEN <<>> ELSE cell.v

\* row_dict of the row at 0-based position i
RowDict(frame, i) ==
    [c \in Range(frame.columns) |->
        CellText(frame.rows[i + 1][CHOOSE j \in DOMAIN frame.columns : frame.columns[j] = c])]

\* variant: the value is used without .strip()
EmailUnstripped(row_dict, email_column) ==
    IF email_column \in DOMAIN row_dict THEN row_dict[email_column] ELSE <<>>

\* row_dict.get(email_column, "").strip()
Email(row_dict, email_column) ==
    Strip(IF email_column \in DOMAIN row_dict THEN row_dict[email_column] ELSE <<>>)

\* `if not email`
NoEmail(email) == email = <<>>

\* template.format(**row_dict): the rendered text, or the KeyError of the
\* first placeholder that names no key of row_dict
RECURSIVE Format(_, _)
Format(template, row_dict) ==
    IF template = <<>> THEN [ok |-> TRUE, text |-> <<>>, key |-> ""]
    ELSE LET t == Head(template)
             rest == Format(Tail(template), row_dict)
         IN  IF t.k = "ph" /\ t.name \notin DOMAIN row_dict
               THEN [ok |-> FALSE, text |-> <<>>, key |-> t.name]
             ELSE IF ~rest.ok THEN rest
             ELSE [ok |-> TRUE,
                   text |-> (IF t.k = "ph" THEN row_dict[t.name] ELSE t.text) \o rest.text,
                   key |-> ""]

\* variant: a body that does not render falls back to no text instead of
\* failing the row
RenderBodyFallback(subject_template, body_template, row_dict) ==
    LET subj == Format(subject_template, row_dict)
        body == Format(body_template, row_dict)
    IN  IF ~subj.ok THEN [ok |-> FALSE, key |-> subj.key, subject |-> <<>>, body |-> <<>>]
        ELSE [ok |-> TRUE, key |-> "", subject |-> subj.text, body |-> body.text]

\* the first try block of the loop: subject first, then body
Render(subject_template, body_template, row_dict) ==
    LET subj == Format(subject_template, row_dict)
        body == Format(body_template, row_dict)
    IN  IF ~subj.ok THEN [ok |-> FALSE, key |-> subj.key, subject |-> <<>>, body |-> <<>>]
        ELSE IF ~body.ok THEN [ok |-> FALSE, key |-> body.key, subject |-> <<>>, body |-> <<>>]
        ELSE [ok |-> TRUE, key |-> "", subject |-> subj.text, body |-> body.text]

-----------------------------------------------------------------------------
(* send_ticket *)

CustomFields == [cf_choose_your_inquiry |-> "Information Shared - Resolved"]

Payload(email, subject, body) ==
    [email |-> email, subject |-> subject, description |-> body,
     status |-> 2, priority |-> 1, source |-> 2, type |-> "Other Issue",
     custom_fields |-> CustomFields, cc_emails |-> <<>>]

\* requests.Response.ok
ResponseOk(status) == status < 400

\* variant: `>=` in place of `==`
IsRateLimitOrAbove(status) == status >= RateLimitStatus

\* status == 429 in send_ticket
IsRateLimitResponse(status) == status = RateLimitStatus

\* what send_ticket does with the remote's reply: the parsed JSON it returns,
\* the HTTPException it raises, or the JSONDecodeError that response.json()
\* raises outside the try block
send_ticket(reply) ==
    IF reply.kind = "exc"
      THEN [raised |-> TRUE, type |-> "HTTPException", status_code |-> BadGatewayStatus,
            detail |-> "Freshdesk request failed", id |-> 0]
    ELSE IF IsRateLimitResponse(reply.status)
      THEN [raised |-> TRUE, type |-> "HTTPException", status_code |-> RateLimitStatus,
            detail |-> "Freshdesk rate limit reached (429). Please slow down and retry.",
            id |-> 0]
    ELSE IF ~ResponseOk(reply.status)
      THEN [raised |-> TRUE, type |-> "HTTPException", status_code |-> reply.status,
            detail |-> "Freshdesk error", id |-> 0]
    ELSE IF ~reply.json
      THEN [raised |-> TRUE, type |-> "JSONDecodeError", status_code |-> 0,
            detail |-> "", id |-> 0]
    ELSE [raised |-> FALSE, type |-> "", status_code |-> reply.status,
          detail |-> "", id |-> reply.id]

\* `except HTTPException` in the row loop
Caught(exc) == exc.type = "HTTPException"

\* the answer of the framework to an exception that leaves the handler
InternalServerError ==
    [kind |-> "error", status |-> 500, detail |-> [str |-> "Internal Server Error"]]

\* variant: the break after a 429 is missing
BreaksLoopNever(exc) == FALSE

\* variant: any HTTPException breaks out of the loop
BreaksOnAnyError(exc) == TRUE

\* `if exc.status_code == 429: break`
BreaksLoop(exc) == exc.status_code = RateLimitStatus

\* variant: a failed row other than a 429 is submitted again
AfterSendRetry(out) ==
    IF out.raised THEN (IF BreaksLoop(out) THEN "return" ELSE "post") ELSE "sleep"

\* where the loop goes after send_ticket: `break` on a 429, else on to the
\* sleep that ends the iteration
AfterSend(out) == IF out.raised /\ BreaksLoop(out) THEN "return" ELSE "sleep"

\* variant: skipped rows are left out of the report
AppendUnlessSkipped(res, r) == IF r.status = "skipped" THEN res ELSE Append(res, r)

\* variant: the new result is put in front
PrependResult(res, r) == <<r>> \o res

\* results.append(r)
AppendResult(res, r) == Append(res, r)

-----------------------------------------------------------------------------
(* Result records and logged calls *)

Skipped(i) == [row |-> i, status |-> "skipped", reason |-> "no email"]

RenderError(i, key) ==
    [row |-> i, status |-> "error", error |-> <<"Missing placeholder value for: ", key>>]

Sent(i, json) == [row |-> i, status |-> "sent", ticket_id |-> json.id]

SendError(i, exc) == [row |-> i, status |-> "error", error |-> exc.detail]

\* one requests.post of send_ticket, as the remote saw it
PostCall(i, payload, auth, reply) ==
    [op |-> "post", row |-> i, payload |-> payload, auth |-> auth, reply |-> reply]

\* one time.sleep(0.5)
SleepCall(i) == [op |-> "sleep", row |-> i, ms |-> SleepMs]

\* variant: `total` counts the results instead of the rows
ReportCountsResults(total_rows, res) ==
    [kind |-> "report", total |-> Len(res), results |-> res]

Report(total_rows, res) == [kind |-> "report", total |-> total_rows, results |-> res]

-----------------------------------------------------------------------------
(* Initial state *)

Init ==
    /\ server = "init"
    /\ env \in Envs
    /\ pc = [b \in Batches |-> "idle"]
    /\ req = [b \in Batches |-> NoRequest]
    /\ df = [b \in Batches |-> NoFrame]
    /\ idx = [b \in Batches |-> 0]
    /\ results = [b \in Batches |-> <<>>]
    /\ trace = [b \in Batches |-> <<>>]
    /\ response = [b \in Batches |-> NoResponse]

-----------------------------------------------------------------------------
(* Actions *)

\* import of the module: validate_env() either returns or raises
Startup ==
    /\ server = "init"
    /\ server' = IF validate_env(env) THEN "up" ELSE "failed"
    /\ UNCHANGED <<env, pc, req, df, idx, results, trace, response>>

\* a request arrives (pc: idle, loop, render, post, sleep, return are the
\* positions of the handler; done, failed and crashed are its three ends: the
\* report, an HTTPException of a precondition, an exception nobody catches):
\* the file is read and parsed, the email column is looked
\* up, and `results` and `total_rows` are set up
ReceiveFrom(b, R) ==
    /\ server = "up"
    /\ pc[b] = "idle"
    /\ \E r \in R, exc_str \in HTTPExceptionStr :
        LET loaded == LoadFile(r.filename, r.content, exc_str)
        IN  /\ req' = [req EXCEPT ![b] = r]
            /\ IF ~loaded.ok
                 THEN /\ pc' = [pc EXCEPT ![b] = "failed"]
                      /\ response' = [response EXCEPT ![b] = loaded.error]
                      /\ UNCHANGED df
               ELSE IF ColumnMissing(r.email_column, loaded.df)
                 THEN /\ pc' = [pc EXCEPT ![b] = "failed"]
                      /\ response' =
                            [response EXCEPT ![b] = ColumnNotFound(r.email_column, loaded.df)]
                      /\ UNCHANGED df
               ELSE /\ pc' = [pc EXCEPT ![b] = "loop"]
                    /\ df' = [df EXCEPT ![b] = loaded.df]
                    /\ UNCHANGED response
    /\ idx' = [idx EXCEPT ![b] = 0]
    /\ results' = [results EXCEPT ![b] = <<>>]
    /\ UNCHANGED <<server, env, trace>>

Receive(b) == ReceiveFrom(b, Requests)

\* head of one loop iteration: row_dict, the email, and the skip of a row
\* without one
RowStart(b) ==
    /\ pc[b] = "loop"
    /\ idx[b] < Len(df[b].rows)
    /\ LET email == Email(RowDict(df[b], idx[b]), req[b].email_column)
       IN  IF NoEmail(email)
             THEN /\ results' = [results EXCEPT ![b] = AppendResult(@, Skipped(idx[b]))]
                  /\ idx' = [idx EXCEPT ![b] = @ + 1]
                  /\ UNCHANGED pc
           ELSE /\ pc' = [pc EXCEPT ![b] = "render"]
                /\ UNCHANGED <<results, idx>>
    /\ UNCHANGED <<server, env, req, df, trace, response>>

\* the first try block: both templates are rendered, a KeyError ends the
\* iteration with an error result and `continue`.  Templates are sequences of
\* literal text and named replacement fields, so KeyError is the one
\* exception format() raises here.
RenderRow(b) ==
    /\ pc[b] = "render"
    /\ LET r == Render(req[b].subject_template, req[b].body_template, RowDict(df[b], idx[b]))
       IN  IF ~r.ok
             THEN /\ results' = [results EXCEPT ![b] = AppendResult(@, RenderError(idx[b], r.key))]
                  /\ idx' = [idx EXCEPT ![b] = @ + 1]
                  /\ pc' = [pc EXCEPT ![b] = "loop"]
           ELSE /\ pc' = [pc EXCEPT ![b] = "post"]
                /\ UNCHANGED <<results, idx>>
    /\ UNCHANGED <<server, env, req, df, trace, response>>

\* the second try block: send_ticket is called once, its outcome is appended,
\* and a 429 breaks out of the loop
SendRowFrom(b, replies) ==
    /\ pc[b] = "post"
    /\ \E reply \in replies :
        LET row_dict == RowDict(df[b], idx[b])
            r == Render(req[b].subject_template, req[b].body_template, row_dict)
            email == Email(row_dict, req[b].email_column)
            out == send_ticket(reply)
        IN  /\ trace' = [trace EXCEPT ![b] =
                    Append(@, PostCall(idx[b], Payload(email, r.subject, r.body),
                                       AUTH(env), reply))]
            /\ IF out.raised /\ ~Caught(out)
                 THEN /\ pc' = [pc EXCEPT ![b] = "crashed"]
                      /\ response' = [response EXCEPT ![b] = InternalServerError]
                      /\ UNCHANGED results
               ELSE /\ results' = [results EXCEPT ![b] =
                            IF out.raised THEN AppendResult(@, SendError(idx[b], out))
                            ELSE AppendResult(@, Sent(idx[b], out))]
                    /\ pc' = [pc EXCEPT ![b] = AfterSend(out)]
                    /\ UNCHANGED response
    /\ UNCHANGED <<server, env, req, df, idx>>

SendRow(b) == SendRowFrom(b, RemoteReplies)

\* variant: the throttle is missing
SleepOmitted(b) ==
    /\ pc[b] = "sleep"
    /\ idx' = [idx EXCEPT ![b] = @ + 1]
    /\ pc' = [pc EXCEPT ![b] = "loop"]
    /\ UNCHANGED <<server, env, req, df, results, trace, response>>

\* time.sleep(0.5) at the end of an iteration, then the next row
Sleep(b) ==
    /\ pc[b] = "sleep"
    /\ trace' = [trace EXCEPT ![b] = Append(@, SleepCall(idx[b]))]
    /\ idx' = [idx EXCEPT ![b] = @ + 1]
    /\ pc' = [pc EXCEPT ![b] = "loop"]
    /\ UNCHANGED <<server, env, req, df, results, response>>

\* variant: `results` is one list of the module, shared by all requests
ReturnShared(b) ==
    /\ \/ pc[b] = "loop" /\ idx[b] = Len(df[b].rows)
       \/ pc[b] = "return"
    /\ response' = [response EXCEPT ![b] =
            Report(Len(df[b].rows), results[1] \o results[2])]
    /\ pc' = [pc EXCEPT ![b] = "done"]
    /\ UNCHANGED <<server, env, req, df, idx, results, trace>>

\* the return statement, reached when the rows are exhausted or after a break
Return(b) ==
    /\ \/ pc[b] = "loop" /\ idx[b] = Len(df[b].rows)
       \/ pc[b] = "return"
    /\ response' = [response EXCEPT ![b] = Report(Len(df[b].rows), results[b])]
    /\ pc' = [pc EXCEPT ![b] = "done"]
    /\ UNCHANGED <<server, env, req, df, idx, results, trace>>

\* the requests served in the base specification
Solo == {1}

Next ==
    \/ Startup
    \/ \E b \in Solo :
        \/ Receive(b)
        \/ RowStart(b)
        \/ RenderRow(b)
        \/ SendRow(b)
        \/ Sleep(b)
        \/ Return(b)

Spec == Init /\ [][Next]_vars

\* a step of the handler of request b once it has parsed the file
HandlerStep(b) == RowStart(b) \/ RenderRow(b) \/ SendRow(b) \/ Sleep(b) \/ Return(b)

\* the handler runs to completion: requests.post returns or raises within its
\* timeout of 30 s, time.sleep(0.5) returns, and nothing else can hold a step
\* of the loop back
FairSpec == Spec /\ \A b \in Solo : WF_vars(HandlerStep(b))

\* two requests at once.  One process runs the loop of one request without
\* a break (the handler has no await after file.read()), several worker
\* processes run their requests side by side; every interleaving of the
\* steps of the two handlers covers both.
NextTwo ==
    \/ Startup
    \/ \E b \in Batches :
        \/ ReceiveFrom(b, ConcRequests)
        \/ RowStart(b)
        \/ RenderRow(b)
        \/ SendRowFrom(b, ConcReplies)
        \/ Sleep(b)
        \/ Return(b)

SpecTwo == Init /\ [][NextTwo]_vars

-----------------------------------------------------------------------------
(* Vocabulary of the properties *)

\* 0-based positions of the rows of the parsed sheet
Rows(b) == 0 .. (Len(df[b].rows) - 1)

Posts(b) == {k \in DOMAIN trace[b] : trace[b][k].op = "post"}

\* the ticket-creation attempts made for row i
PostsOf(b, i) == {k \in Posts(b) : trace[b][k].row = i}

ResultsOf(b, i) == {k \in DOMAIN results[b] : results[b][k].row = i}

\* the attempt for row i was answered with HTTP 429
Answered429(b, i) ==
    \E k \in PostsOf(b, i) :
        trace[b][k].reply.kind = "resp" /\ trace[b][k].reply.status = 429

RateLimitedBefore(b, i) == \E k \in Rows(b) : k < i /\ Answered429(b, k)

\* the text of row i in the configured email column
EmailValue(b, i) == RowDict(df[b], i)[req[b].email_column]

Blank(b, i) == Strip(EmailValue(b, i)) = <<>>

\* every placeholder of both templates names a column of the sheet
TemplatesRender(b) ==
    \A t \in Range(req[b].subject_template) \cup Range(req[b].body_template) :
        t.k = "ph" => t.name \in Range(df[b].columns)

-----------------------------------------------------------------------------
(* C1 *)

\* C1: when the attempt for row k is answered 429, row k has an `error`
\* result, no row after k has a result or an attempt, the handler has left
\* the loop, and the report holds exactly the results of rows 0..k.
C1_RateLimitHalts ==
    \A b \in Batches : \A k \in Rows(b) :
        Answered429(b, k) =>
            /\ \E j \in ResultsOf(b, k) : results[b][j].status = "error"
            /\ \A j \in DOMAIN results[b] : results[b][j].row <= k
            /\ \A j \in Posts(b) : trace[b][j].row <= k
            /\ pc[b] \in {"return", "done"}
            /\ response[b].kind = "report" =>
                    /\ Len(response[b].results) = k + 1
                    /\ \A j \in DOMAIN response[b].results : response[b].results[j].row <= k

\* a three-row batch whose second row met the 429 and that has returned
C1_Witness ==
    \E b \in Batches :
        /\ pc[b] = "done"
        /\ Len(df[b].rows) = 3
        /\ Answered429(b, 1)
        /\ response[b].kind = "report"
        /\ Len(response[b].results) = 2

-----------------------------------------------------------------------------
(* C2 *)

-----------------------------------------------------------------------------
(* C3 *)

\* C3: a row whose email value is empty, missing or whitespace-only is never
\* attempted, its only result is `skipped`, it has that result as soon as the
\* loop has passed it, and while it is the last result the handler is on
\* the next row (or has returned after the last one, or was ended by what
\* the next row met); in a batch that returns, that next row gets its own
\* result.
C3_BlankRowsSkipped ==
    \A b \in Batches : \A i \in Rows(b) :
        Blank(b, i) =>
            /\ PostsOf(b, i) = {}
            /\ \A j \in ResultsOf(b, i) :
                    results[b][j].status = "skipped" /\ results[b][j].reason = "no email"
            /\ idx[b] > i => Cardinality(ResultsOf(b, i)) = 1
            /\ (results[b] # <<>> /\ results[b][Len(results[b])].row = i)
                    => idx[b] = i + 1 /\ pc[b] \in {"loop", "render", "post", "done", "crashed"}
            /\ (pc[b] = "done" /\ ~RateLimitedBefore(b, i) /\ i + 1 \in Rows(b))
                    => ResultsOf(b, i + 1) # {}

\* a whitespace-only row was skipped and the row after it was attempted
C3_Witness ==
    \E b \in Batches : \E i \in Rows(b) :
        /\ EmailValue(b, i) = <<" ">>
        /\ \E j \in ResultsOf(b, i) : results[b][j].status = "skipped"
        /\ i + 1 \in Rows(b)
        /\ PostsOf(b, i + 1) # {}

-----------------------------------------------------------------------------
(* C4 *)

\* the attempt for row i failed otherwise than by a 429: a transport failure
\* or a non-2xx response
FailedNot429(b, i) ==
    \E k \in PostsOf(b, i) :
        \/ trace[b][k].reply.kind = "exc"
        \/ /\ trace[b][k].reply.kind = "resp"
           /\ trace[b][k].reply.status >= 400
           /\ trace[b][k].reply.status # 429

\* row i has an email, the templates do not render, and the loop has passed it
RenderFailed(b, i) == ~Blank(b, i) /\ ~TemplatesRender(b) /\ idx[b] > i

Aborted(b) == \E k \in Rows(b) : Answered429(b, k)

-----------------------------------------------------------------------------
(* C5 *)

\* the rows the loop has entered when the handler returns
Processed(b) == IF Aborted(b) THEN idx[b] + 1 ELSE idx[b]

\* C5 as stated: a report has as many results as rows were processed, at
\* most the total, and fewer than the total whenever a 429 ended the batch.
C5_Original ==
    \A b \in Batches :
        response[b].kind = "report" =>
            /\ Len(response[b].results) = Processed(b)
            /\ Len(response[b].results) <= Len(df[b].rows)
            /\ Aborted(b) => Len(response[b].results) < Len(df[b].rows)

\* C5 amended: a report has as many results as rows were processed, at most
\* the total; a 429 on row k leaves k + 1 results, which is fewer than the
\* total exactly when row k is not the last row.
C5_ResultCount ==
    \A b \in Batches :
        response[b].kind = "report" =>
            /\ Len(response[b].results) = Processed(b)
            /\ Len(response[b].results) <= Len(df[b].rows)
            /\ \A k \in Rows(b) :
                    Answered429(b, k) =>
                        /\ Len(response[b].results) = k + 1
                        /\ (k + 1 < Len(df[b].rows))
                                <=> (Len(response[b].results) < Len(df[b].rows))

\* a report of a batch that a 429 on its first row cut short, after a
\* skipped row
C5_Witness ==
    \E b \in Batches :
        /\ response[b].kind = "report"
        /\ Len(df[b].rows) = 3
        /\ Blank(b, 0)
        /\ Answered429(b, 1)
        /\ Len(response[b].results) < Len(df[b].rows)

-----------------------------------------------------------------------------
(* C6 *)

C6_Ordered ==
    \A b \in Batches :
        /\ \A j \in 1 .. (Len(results[b]) - 1) : results[b][j].row < results[b][j + 1].row
        /\ \A i \in Rows(b) : Cardinality(ResultsOf(b, i)) <= 1
        /\ \A j \in DOMAIN results[b] : results[b][j].row \in Rows(b)

C6_Prefix ==
    \A b \in Batches :
        /\ Len(results[b]) <= Len(results'[b])
        /\ SubSeq(results'[b], 1, Len(results[b])) = results[b]

\* C6: the row indices of the results are strictly increasing, no row has two
\* results, and every step leaves the results so far as an unchanged prefix
\* of the results after it.
C6_AppendOnlyInOrder == [][C6_Ordered /\ C6_Ordered' /\ C6_Prefix]_vars

\* three results of three different kinds, for rows 0, 1, 2 in that order
C6_Witness ==
    \E b \in Batches :
        /\ Len(results[b]) = 3
        /\ results[b][1].status = "sent" /\ results[b][1].row = 0
        /\ results[b][2].status = "skipped" /\ results[b][2].row = 1
        /\ results[b][3].status = "error" /\ results[b][3].row = 2

-----------------------------------------------------------------------------
(* C7 *)

\* the loop has passed row i and a pause of 500 ms was made for it
PausedAfter(b, i) ==
    \E k \in DOMAIN trace[b] :
        trace[b][k].op = "sleep" /\ trace[b][k].row = i /\ trace[b][k].ms = 500

\* C7 as stated: once the loop has moved from a row whose result is `sent` or
\* `error` on to the next row of the sheet, a 500 ms pause was made after
\* that row.
C7_Original ==
    \A b \in Batches : \A j \in DOMAIN results[b] :
        (/\ results[b][j].status \in {"sent", "error"}
         /\ idx[b] > results[b][j].row
         /\ results[b][j].row + 1 \in Rows(b))
            => PausedAfter(b, results[b][j].row)

\* C7 amended: once the loop has moved past a row for which a ticket-creation
\* attempt was made (result `sent`, or `error` from the remote or the
\* transport), the 500 ms pause directly follows that attempt; a row that
\* failed at rendering, like a skipped row, is followed by no pause.
C7_PauseAfterAttempt ==
    \A b \in Batches : \A j \in DOMAIN results[b] :
        LET i == results[b][j].row
        IN  /\ (PostsOf(b, i) # {} /\ idx[b] > i)
                => \A k \in PostsOf(b, i) :
                        /\ k + 1 \in DOMAIN trace[b]
                        /\ trace[b][k + 1].op = "sleep"
                        /\ trace[b][k + 1].row = i
                        /\ trace[b][k + 1].ms = 500
            /\ PostsOf(b, i) = {} => ~PausedAfter(b, i)
            /\ results[b][j].status = "sent" => PostsOf(b, i) # {}

\* row 0 was sent, the pause was made, and row 1 has been attempted
C7_Witness ==
    \E b \in Batches :
        /\ Len(trace[b]) >= 3
        /\ trace[b][1].op = "post" /\ trace[b][1].row = 0 /\ trace[b][1].reply.status = 201
        /\ trace[b][2].op = "sleep" /\ trace[b][2].row = 0
        /\ trace[b][3].op = "post" /\ trace[b][3].row = 1

-----------------------------------------------------------------------------
(* C8 *)

\* the columns left out of the custom fields whatever their value
IgnoredColumns == {"company", "company_id"}

\* the columns of row i that the merge takes: non-empty, neither the email
\* column nor an ignored one
RowFieldKeys(b, i) ==
    {c \in Range(df[b].columns) \ ({req[b].email_column} \cup IgnoredColumns) :
        RowDict(df[b], i)[c] # <<>>}

\* C8 as stated, for a request that carries neither a disposition nor
\* extra-fields JSON (send_bulk takes neither): the custom fields of every
\* ticket-creation request hold each taken column of the row under its own
\* name with the row's value.
C8_Original ==
    \A b \in Batches : \A k \in Posts(b) :
        LET cf == trace[b][k].payload.custom_fields
            i == trace[b][k].row
        IN  \A c \in RowFieldKeys(b, i) :
                c \in DOMAIN cf /\ cf[c] = RowDict(df[b], i)[c]

-----------------------------------------------------------------------------
(* C9 *)

BadKey(e) == e.api_key = <<>> \/ Len(Strip(e.api_key)) < 15

SupportedName(f) ==
    \/ EndsWith(Lower(f), <<".", "c", "s", "v">>)
    \/ EndsWith(Lower(f), <<".", "x", "l", "s", "x">>)
    \/ EndsWith(Lower(f), <<".", "x", "l", "s">>)

\* the parser that the file name selects can read the content
Parses(r) ==
    IF EndsWith(Lower(r.filename), <<".", "c", "s", "v">>)
      THEN r.content.fmt = "csv"
      ELSE r.content.fmt = "excel"

ColumnAbsent(r) == r.email_column \notin Range(r.content.frame.columns)

PreconditionFails(r) == ~SupportedName(r.filename) \/ ~Parses(r) \/ ColumnAbsent(r)

\* C9: with a bad API key the import fails and no request is ever handled;
\* a request with an unsupported file name, an unparsable file or an absent
\* email column ends in one HTTP 400 error, with no result, no remote call
\* and no report; the error for an absent email column lists the columns of
\* the sheet.
C9_PreconditionsFailFast ==
    /\ (server # "init" /\ BadKey(env)) => server = "failed"
    /\ server # "up" =>
            \A b \in Batches :
                /\ pc[b] = "idle"
                /\ results[b] = <<>>
                /\ trace[b] = <<>>
                /\ response[b].kind = "none"
    /\ \A b \in Batches :
            (pc[b] # "idle" /\ PreconditionFails(req[b])) =>
                /\ pc[b] = "failed"
                /\ response[b].kind = "error"
                /\ response[b].status = 400
                /\ results[b] = <<>>
                /\ trace[b] = <<>>
                /\ df[b] = NoFrame
                /\ (SupportedName(req[b].filename) /\ Parses(req[b]))
                        => response[b].detail.available_columns
                                = req[b].content.frame.columns

\* a request naming the column "mail" for a sheet with the columns email and
\* name was rejected with the list of columns
C9_Witness ==
    \E b \in Batches :
        /\ pc[b] = "failed"
        /\ req[b].email_column = "mail"
        /\ SupportedName(req[b].filename) /\ Parses(req[b])
        /\ Len(req[b].content.frame.rows) = 2
        /\ response[b].detail.available_columns = <<"email", "name">>

-----------------------------------------------------------------------------
(* C10 *)

C10_AtMostOne ==
    \A b \in Batches : \A i \in Rows(b) : Cardinality(PostsOf(b, i)) <= 1

\* a step of request b that makes a ticket-creation attempt
Attempts(b) ==
    /\ Len(trace'[b]) = Len(trace[b]) + 1
    /\ trace'[b][Len(trace'[b])].op = "post"

\* C10: no row ever has more than one ticket-creation attempt, and an
\* attempt is only ever made for a row that has no result and no attempt yet,
\* whatever the remote answered before.
C10_NoRetry ==
    [][/\ C10_AtMostOne
       /\ C10_AtMostOne'
       /\ \A b \in Batches :
            Attempts(b) =>
                LET i == trace'[b][Len(trace'[b])].row
                IN  ResultsOf(b, i) = {} /\ PostsOf(b, i) = {}]_vars

\* a returned batch whose rows met a transport failure, a 500 and a 429, each
\* attempted once
C10_Witness ==
    \E b \in Batches :
        /\ pc[b] = "done"
        /\ Len(trace[b]) = 5
        /\ trace[b][1].op = "post" /\ trace[b][1].reply.kind = "exc"
        /\ trace[b][3].op = "post" /\ trace[b][3].reply.status = 500
        /\ trace[b][5].op = "post" /\ trace[b][5].reply.status = 429
        /\ \A i \in Rows(b) : Cardinality(PostsOf(b, i)) = 1

-----------------------------------------------------------------------------
(* C11 *)

\* the placeholders of a template that name no column, in template order
MissingIn(template, cols) ==
    SelectSeq(template, LAMBDA t : t.k = "ph" /\ t.name \notin cols)

\* the placeholder the failure reason names: the first missing one of the
\* subject, or else the first missing one of the body
FirstMissing(b) ==
    LET cols == Range(df[b].columns)
        ms == MissingIn(req[b].subject_template, cols)
        mb == MissingIn(req[b].body_template, cols)
    IN  IF ms # <<>> THEN ms[1].name ELSE mb[1].name

\* C11: when the subject or the body names a column the sheet does not have,
\* a row with an email is never attempted, gets exactly one result, an
\* `error` naming the missing placeholder, as soon as the loop has passed it,
\* and the loop goes on: while that result is the last one the handler is on
\* the next row, and the returned report has a result for every row.  The
\* same holds whether the subject or the body is the template that fails.
C11_RenderFailureIsRowError ==
    \A b \in Batches : \A i \in Rows(b) :
        (~Blank(b, i) /\ ~TemplatesRender(b)) =>
            /\ PostsOf(b, i) = {}
            /\ \A j \in ResultsOf(b, i) :
                    /\ results[b][j].status = "error"
                    /\ results[b][j].error
                            = <<"Missing placeholder value for: ", FirstMissing(b)>>
            /\ idx[b] > i => Cardinality(ResultsOf(b, i)) = 1
            /\ (results[b] # <<>> /\ results[b][Len(results[b])].row = i)
                    => idx[b] = i + 1 /\ pc[b] \in {"loop", "render", "done"}
            /\ pc[b] = "done" =>
                    /\ response[b].kind = "report"
                    /\ Len(response[b].results) = Len(df[b].rows)

\* a returned batch whose subject renders and whose body does not: rows 0 and
\* 2 have an email and an `error` naming zip, row 1 between them was skipped
C11_Witness ==
    \E b \in Batches :
        /\ pc[b] = "done"
        /\ Len(df[b].rows) = 3
        /\ MissingIn(req[b].subject_template, Range(df[b].columns)) = <<>>
        /\ ~Blank(b, 0) /\ Blank(b, 1) /\ ~Blank(b, 2)
        /\ trace[b] = <<>>
        /\ response[b].kind = "report"
        /\ response[b].results[1].status = "error"
        /\ response[b].results[1].error = <<"Missing placeholder value for: ", "zip">>
        /\ response[b].results[2].status = "skipped"
        /\ response[b].results[3].status = "error"
        /\ response[b].results[3].error = <<"Missing placeholder value for: ", "zip">>

-----------------------------------------------------------------------------
(* C12 *)

\* C12: every report carries as `total` the number of rows of the uploaded
\* sheet, whether the rows were exhausted or a 429 cut the batch short, and
\* as `results` exactly the results produced up to the return.
C12_ReportTotal ==
    \A b \in Batches :
        response[b].kind = "report" =>
            /\ response[b].total = Len(req[b].content.frame.rows)
            /\ response[b].results = results[b]
            /\ pc[b] = "done"

\* a report of three rows in total with the single result of the row whose
\* 429 ended the batch
C12_Witness ==
    \E b \in Batches :
        /\ response[b].kind = "report"
        /\ response[b].total = 3
        /\ Len(response[b].results) = 1
        /\ Answered429(b, 0)

-----------------------------------------------------------------------------
(* C13 *)

\* the reply was an HTTP response with a 2xx status
Is2xx(reply) == reply.kind = "resp" /\ reply.status >= 200 /\ reply.status <= 299

\* C13 as stated: the row of every attempt has one result; it is `sent`, with
\* the id of the reply, exactly when the reply was a 2xx response, and
\* `error` otherwise; and right after an attempt the loop has been left
\* exactly when the reply was a 429.
C13_Original ==
    \A b \in Batches : \A k \in Posts(b) :
        LET reply == trace[b][k].reply
            i == trace[b][k].row
        IN  /\ Cardinality(ResultsOf(b, i)) = 1
            /\ \A j \in ResultsOf(b, i) :
                    /\ results[b][j].status = "sent" <=> Is2xx(reply)
                    /\ results[b][j].status = "sent" => results[b][j].ticket_id = reply.id
                    /\ ~Is2xx(reply) => results[b][j].status = "error"
            /\ k = Len(trace[b]) =>
                    (pc[b] \in {"return", "done"}
                        <=> (reply.kind = "resp" /\ reply.status = 429))

-----------------------------------------------------------------------------
(* C14 *)

\* the answer given when a supported file cannot be decoded or parsed
IsParseFailure(resp) ==
    /\ resp.kind = "error"
    /\ resp.status = 400
    /\ "str" \in DOMAIN resp.detail
    /\ resp.detail.str[1] = "Could not parse file: "

\* C14 as stated: a request whose file name has none of the suffixes .csv,
\* .xlsx, .xls is answered with an error that is not the answer of a parse
\* failure.
C14_Original ==
    \A b \in Batches :
        (pc[b] # "idle" /\ ~SupportedName(req[b].filename)) =>
            /\ response[b].kind = "error"
            /\ ~IsParseFailure(response[b])

-----------------------------------------------------------------------------
(* C15 *)

\* C15: between any two ticket-creation attempts of a batch there is at
\* least one 500 ms pause, whatever rows (skipped, or attempted and failed
\* otherwise than by a 429) lie at or between the two attempted rows.  (A
\* template that does not render fails every row with an email, so a batch
\* with a render failure has no attempt at all.)
C15_PauseBetweenAttempts ==
    \A b \in Batches : \A k1, k2 \in Posts(b) :
        k1 < k2 =>
            \E k \in (k1 + 1) .. (k2 - 1) :
                trace[b][k].op = "sleep" /\ trace[b][k].ms = 500

\* rows 0 and 2 were attempted, the first answered 500, with the skipped row
\* 1 between them
C15_Witness ==
    \E b \in Batches :
        /\ Len(trace[b]) >= 3
        /\ trace[b][1].op = "post" /\ trace[b][1].row = 0 /\ trace[b][1].reply.status = 500
        /\ trace[b][3].op = "post" /\ trace[b][3].row = 2
        /\ \E j \in ResultsOf(b, 1) : results[b][j].status = "skipped"

-----------------------------------------------------------------------------
(* C16 *)

\* the row the loop is about to enter has not been entered before
C16_FreshRow ==
    \A b \in Batches :
        (pc[b] = "loop" /\ idx[b] \in Rows(b))
            => ResultsOf(b, idx[b]) = {} /\ PostsOf(b, idx[b]) = {}

\* the loop only moves forward by one row, and an answer, once given, is final
C16_Forward ==
    \A b \in Batches :
        /\ idx'[b] \in {idx[b], idx[b] + 1}
        /\ idx'[b] <= Len(df'[b].rows)
        /\ response[b].kind # "none" => response'[b] = response[b] /\ pc'[b] = pc[b]

\* the handler has returned its report, after the last row or after a 429
C16_Returned(b) ==
    /\ pc[b] = "done"
    /\ response[b].kind = "report"
    /\ idx[b] = Len(df[b].rows) \/ Aborted(b)

\* C16 as stated: a batch that has entered the row loop enters each row at
\* most once, only moves forward, and eventually returns its report, once,
\* after the last row or after a 429, whatever the remote answers.
C16_Original ==
    /\ [][C16_FreshRow /\ C16_FreshRow' /\ C16_Forward]_vars
    /\ \A b \in Solo : (pc[b] = "loop") ~> C16_Returned(b)

-----------------------------------------------------------------------------
(* C17 *)

\* the replies the remote gave to batch b, in the order it gave them
RepliesOf(b) ==
    LET posts == SelectSeq(trace[b], LAMBDA e : e.op = "post")
    IN  [k \in DOMAIN posts |-> posts[k].reply]

\* the answer of a handler that runs alone from row i on, with the results
\* res so far, and meets exactly the replies given; NoResponse when the run
\* would need another reply or would leave one unused
RECURSIVE AloneFrom(_, _, _, _, _)
AloneFrom(request, frame, i, res, replies) ==
    IF i = Len(frame.rows)
      THEN IF replies = <<>> THEN [kind |-> "report", total |-> Len(frame.rows), results |-> res]
           ELSE NoResponse
    ELSE
      LET row_dict == RowDict(frame, i)
          r == Render(request.subject_template, request.body_template, row_dict)
      IN  IF Strip(row_dict[request.email_column]) = <<>>
            THEN AloneFrom(request, frame, i + 1, Append(res, Skipped(i)), replies)
          ELSE IF ~r.ok
            THEN AloneFrom(request, frame, i + 1, Append(res, RenderError(i, r.key)), replies)
          ELSE IF replies = <<>> THEN NoResponse
          ELSE
            LET out == send_ticket(Head(replies))
            IN  IF out.raised /\ out.type # "HTTPException"
                  THEN IF Tail(replies) = <<>> THEN InternalServerError ELSE NoResponse
                ELSE IF out.raised /\ out.status_code = 429
                  THEN IF Tail(replies) = <<>>
                         THEN [kind |-> "report", total |-> Len(frame.rows),
                               results |-> Append(res, SendError(i, out))]
                       ELSE NoResponse
                ELSE AloneFrom(request, frame, i + 1,
                               Append(res, IF out.raised THEN SendError(i, out)
                                           ELSE Sent(i, out)),
                               Tail(replies))

Alone(b) == AloneFrom(req[b], req[b].content.frame, 0, <<>>, RepliesOf(b))

\* C17: with the steps of two batches interleaved, the answer of each batch
\* that has ended is the answer of a handler that runs alone on the same
\* request and meets the same replies: the same kind of answer, the same
\* total, the same results in the same order, all of them for rows of its own
\* sheet; a 429 met by one batch leaves no trace in the other.
C17_Isolated ==
    \A b \in Batches :
        pc[b] \in {"done", "crashed"} =>
            /\ response[b].kind = Alone(b).kind
            /\ response[b].kind = "error" => response[b] = Alone(b)
            /\ response[b].kind = "report" =>
                    /\ response[b].total = Alone(b).total
                    /\ Len(response[b].results) = Len(Alone(b).results)
                    /\ \A j \in DOMAIN response[b].results :
                            /\ response[b].results[j].row \in Rows(b)
                            /\ response[b].results[j].row = Alone(b).results[j].row
                            /\ response[b].results[j].status = Alone(b).results[j].status
                            /\ response[b].results[j] = Alone(b).results[j]
                    /\ Aborted(b) <=> Answered429(b, idx[b])

\* both batches have returned: the first was ended by a 429 on its row 0 and
\* has one result for a sheet of two rows, the second has a ticket for each
\* of its two rows
C17_Witness ==
    /\ pc[1] = "done" /\ pc[2] = "done"
    /\ Len(df[1].rows) = 2 /\ Len(df[2].rows) = 2
    /\ Answered429(1, 0)
    /\ Len(response[1].results) = 1
    /\ ~Aborted(2)
    /\ Len(response[2].results) = 2
    /\ \A j \in 1..2 : response[2].results[j].status = "sent"

====
